---- MODULE Spec2Model ----
(***************************************************************************)
(* The /soap endpoint of soap-server: the dispatcher of main.go and the    *)
(* three operation handlers (GetUser, UploadFile, UploadFileMTOM).         *)
(*                                                                         *)
(* One behaviour is the processing of one HTTP request.  A request body is *)
(* a byte string, kept as a sequence of segments: a segment is either one  *)
(* occurrence of a request-element name (a "marker", with its true byte    *)
(* length) or a run of other bytes.  What the bytes mean to an XML or MIME *)
(* parser is the request's doc; a parser handed a stream that stops before *)
(* the end of the document fails with an unexpected-EOF error.             *)
(***************************************************************************)
EXTENDS Integers, Sequences, FiniteSets, TLC

VARIABLES
    req,        \* the inbound *http.Request: method, headers, body
    pc,         \* position inside the /soap handler
    bodyRead,   \* bytes of the original body consumed by the dispatcher
    rbody,      \* r.Body as the invoked handler finds it
    invoked,    \* handlers invoked so far, in order
    resp,       \* what has been written to the http.ResponseWriter
    fsOps,      \* filesystem calls made for this request, in order
    fileName,   \* handler local: fileName
    fileData,   \* handler local: decoded file bytes
    mimeRead,   \* whether parseMTOMRequest read the body to split it into parts
    userDB,     \* the package-level user table, shared by all requests
    parked      \* the request of another goroutine, with its position and locals

vars == <<req, pc, bodyRead, rbody, invoked, resp, fsOps, fileName, fileData,
          mimeRead, userDB, parked>>

----------------------------------------------------------------------------
(* Bounds of the model *)

MaxQuotes == 2      \* quote characters on either side of a SOAPAction value
MaxSegs == 2        \* segments of a request body
MaxParts == 2       \* MIME parts of a multipart body
MaxBytes == 3       \* bytes of an encoded file

(* Program constants *)

PeekSize == 512

----------------------------------------------------------------------------
(* Strings *)

Min(a, b) == IF a <= b THEN a ELSE b

Q == "\""

GetUserAction == "http://example.com/soap/user/GetUser"
UploadFileAction == "http://example.com/soap/user/UploadFile"
UploadFileMTOMAction == "http://example.com/soap/user/UploadFileMTOM"

Markers == {"GetUserRequest", "UploadFileMTOMRequest", "UploadFileRequest"}

\* len(marker) in bytes
MarkerLen(m) ==
    IF m = "GetUserRequest" THEN 14
    ELSE IF m = "UploadFileMTOMRequest" THEN 21
    ELSE 17

Marker(m) == [kind |-> m, size |-> MarkerLen(m)]
Filler(n) == [kind |-> "bytes", size |-> n]

RECURSIVE TotalLen(_)
TotalLen(segs) ==
    IF segs = <<>> THEN 0 ELSE Head(segs).size + TotalLen(Tail(segs))

\* segs[:n]: a marker cut short is no longer that marker
RECURSIVE Take(_, _)
Take(segs, n) ==
    IF n <= 0 \/ segs = <<>> THEN <<>>
    ELSE IF Head(segs).size <= n
         THEN <<Head(segs)>> \o Take(Tail(segs), n - Head(segs).size)
         ELSE <<Filler(n)>>

\* strings.Contains(stream, m), m a marker: no marker is a substring of
\* another, and runs of other bytes hold no marker
Contains(stream, m) == \E i \in 1..Len(stream) : stream[i].kind = m

----------------------------------------------------------------------------
(* main.go *)

stripQuotesAll(s) == SelectSeq(s, LAMBDA c : c # Q)

stripQuotes(s) ==
    IF Len(s) >= 2 /\ s[1] = Q /\ s[Len(s)] = Q
    THEN SubSeq(s, 2, Len(s) - 1)
    ELSE s

MethodAllowedAny(m) == TRUE

\* main.go:21
MethodAllowed(m) == m = "POST"

ActionHandlerSwapped(a) ==
    IF a = <<GetUserAction>> THEN "UploadFile"
    ELSE IF a = <<UploadFileAction>> THEN "UploadFileMTOM"
    ELSE IF a = <<UploadFileMTOMAction>> THEN "GetUser"
    ELSE "none"

\* the switch on the stripped SOAPAction
ActionHandler(a) ==
    IF a = <<GetUserAction>> THEN "GetUser"
    ELSE IF a = <<UploadFileAction>> THEN "UploadFile"
    ELSE IF a = <<UploadFileMTOMAction>> THEN "UploadFileMTOM"
    ELSE "none"

HeaderTargetDefaultGetUser(h) ==
    IF h = <<>> THEN "none"
    ELSE IF ActionHandler(stripQuotes(h)) = "none" THEN "GetUser"
    ELSE ActionHandler(stripQuotes(h))

HeaderTarget(h) == IF h # <<>> THEN ActionHandler(stripQuotes(h)) ELSE "none"

SniffTargetUploadFirst(bufStr) ==
    IF Contains(bufStr, "UploadFileRequest") THEN "UploadFile"
    ELSE IF Contains(bufStr, "UploadFileMTOMRequest") THEN "UploadFileMTOM"
    ELSE IF Contains(bufStr, "GetUserRequest") THEN "GetUser"
    ELSE "none"

SniffTargetDefaultUpload(bufStr) ==
    IF Contains(bufStr, "GetUserRequest") THEN "GetUser"
    ELSE IF Contains(bufStr, "UploadFileMTOMRequest") THEN "UploadFileMTOM"
    ELSE "UploadFile"

\* the if/else-if chain on the peeked prefix
SniffTarget(bufStr) ==
    IF Contains(bufStr, "GetUserRequest") THEN "GetUser"
    ELSE IF Contains(bufStr, "UploadFileMTOMRequest") THEN "UploadFileMTOM"
    ELSE IF Contains(bufStr, "UploadFileRequest") THEN "UploadFile"
    ELSE "none"

NoResp == [kind |-> "none", code |-> "", message |-> "", detail |-> <<>>, size |-> 0]

\* sendSOAPError: the three arguments are rendered as given
sendSOAPError(faultCode, faultString, detail) ==
    [kind |-> "fault", code |-> faultCode, message |-> faultString,
     detail |-> detail, size |-> 0]

\* http.Error(w, ..., http.StatusMethodNotAllowed)
MethodNotAllowed ==
    [kind |-> "http405", code |-> "", message |-> "Method not allowed. Use POST.",
     detail |-> <<>>, size |-> 0]

UnknownOperationSilent == NoResp

UnknownOperationFault ==
    sendSOAPError("Client", "Unknown operation",
                  <<"Could not determine SOAP operation from request">>)

\* The byte counts one body.Read(buf) with len(buf) = PeekSize may return:
\* an io.Reader returns what is available, so any count from 1 up to
\* min(PeekSize, len(body)) (0 on an empty body).  The counts kept are
\* the full one and those that stop one byte before a segment end.
RECURSIVE SegEnds(_, _)
SegEnds(segs, base) ==
    IF segs = <<>> THEN {}
    ELSE {base + Head(segs).size} \cup SegEnds(Tail(segs), base + Head(segs).size)

ReadCounts(segs) ==
    LET full == Min(PeekSize, TotalLen(segs))
        ends == SegEnds(segs, 0)
    IN  IF full = 0 THEN {0}
        ELSE {full} \cup {k \in {e - 1 : e \in ends} : 1 <= k /\ k <= full}

\* r.Body = newReadCloser(bufStr): the handler's body is the peeked prefix
newReadCloser(bufStr) == bufStr

----------------------------------------------------------------------------
(* Text: strings the handlers inspect are sequences of one-character strings *)

HasSub(s, t) ==
    \E i \in 1..(Len(s) - Len(t) + 1) : SubSeq(s, i, i + Len(t) - 1) = t

RECURSIVE Flatten(_)
Flatten(ss) == IF ss = <<>> THEN <<>> ELSE Head(ss) \o Flatten(Tail(ss))

IncludeWord == <<"I", "n", "c", "l", "u", "d", "e">>
XopInclude == <<"<", "x", "o", "p", ":">> \o IncludeWord
HrefCid == <<"h", "r", "e", "f", "=", Q, "c", "i", "d", ":">>
QuoteChars == {Q, "'"}

\* A node of an element's content: character data or a child element
Text(chars) == [t |-> "text", v |-> chars]
IncludeElem(id) == [t |-> "elem", v |-> id]

\* encoding/xml into a string field: the element's own character data is
\* collected, child elements are skipped
CharData(nodes) ==
    Flatten([i \in 1..Len(nodes) |->
                IF nodes[i].t = "text" THEN nodes[i].v ELSE <<>>])

----------------------------------------------------------------------------
(* encoding/base64, StdEncoding *)

B64Chars ==
    <<"A","B","C","D","E","F","G","H","I","J","K","L","M","N","O","P",
      "Q","R","S","T","U","V","W","X","Y","Z","a","b","c","d","e","f",
      "g","h","i","j","k","l","m","n","o","p","q","r","s","t","u","v",
      "w","x","y","z","0","1","2","3","4","5","6","7","8","9","+","/">>

IsB64(c) == \E i \in 1..64 : B64Chars[i] = c
B64Val(c) == (CHOOSE i \in 1..64 : B64Chars[i] = c) - 1

QuantumBytesUnpadded(q, pads) ==
    LET v1 == B64Val(q[1])
        v2 == B64Val(q[2])
        v3 == IF pads >= 2 THEN 0 ELSE B64Val(q[3])
        v4 == IF pads >= 1 THEN 0 ELSE B64Val(q[4])
    IN  <<v1 * 4 + (v2 \div 16), (v2 % 16) * 16 + (v3 \div 4), (v3 % 4) * 64 + v4>>

\* the bytes of one 4-character quantum with `pads` trailing '='
QuantumBytes(q, pads) ==
    LET v1 == B64Val(q[1])
        v2 == B64Val(q[2])
        v3 == IF pads >= 2 THEN 0 ELSE B64Val(q[3])
        v4 == IF pads >= 1 THEN 0 ELSE B64Val(q[4])
        b1 == v1 * 4 + (v2 \div 16)
        b2 == (v2 % 16) * 16 + (v3 \div 4)
        b3 == (v3 % 4) * 64 + v4
    IN  SubSeq(<<b1, b2, b3>>, 1, 3 - pads)

DecodeStringLenient(text) == [ok |-> TRUE, data |-> <<0>>]

\* base64.StdEncoding.DecodeString: \r and \n are ignored, the length must
\* be a multiple of 4, '=' may only end the last quantum (one or two)
DecodeString(text) ==
    LET s == SelectSeq(text, LAMBDA c : c \notin {"\n", "\r"})
        n == Len(s)
        pads == IF n > 0 /\ s[n] = "="
                THEN (IF n > 1 /\ s[n - 1] = "=" THEN 2 ELSE 1)
                ELSE 0
        ok == /\ n % 4 = 0
              /\ \A i \in 1..(n - pads) : IsB64(s[i])
        quanta == [k \in 1..(n \div 4) |->
                     QuantumBytes(SubSeq(s, 4 * k - 3, 4 * k),
                                  IF k = n \div 4 THEN pads ELSE 0)]
    IN  IF ok THEN [ok |-> TRUE, data |-> Flatten(quanta)]
        ELSE [ok |-> FALSE, data |-> <<>>]

\* the 4 characters the client's encoder writes for a group of 1 to 3 bytes
EncodeQuantum(bs) ==
    LET b1 == bs[1]
        b2 == IF Len(bs) >= 2 THEN bs[2] ELSE 0
        b3 == IF Len(bs) >= 3 THEN bs[3] ELSE 0
    IN  << B64Chars[(b1 \div 4) + 1],
           B64Chars[(b1 % 4) * 16 + (b2 \div 16) + 1],
           IF Len(bs) >= 2 THEN B64Chars[(b2 % 16) * 4 + (b3 \div 64) + 1] ELSE "=",
           IF Len(bs) >= 3 THEN B64Chars[(b3 % 64) + 1] ELSE "=" >>

\* the client's Base64.getEncoder(): padded, unwrapped standard base64
Base64Encode(bytes) ==
    LET n == Len(bytes)
    IN  Flatten([k \in 1..((n + 2) \div 3) |->
                    EncodeQuantum(SubSeq(bytes, 3 * k - 2, Min(3 * k, n)))])

----------------------------------------------------------------------------
(* encoding/xml: decoding a SOAP envelope *)

\* What a body means to a parser.  form "xml": one envelope; envelopeOK is
\* whether it is well-formed XML with the SOAP Envelope/Body wrapper; op is
\* the request element in the Body.  form "multipart": MIME parts.
XmlDoc(ok, op, id, name, data) ==
    [form |-> "xml", envelopeOK |-> ok, op |-> op, id |-> id,
     fileName |-> name, fileData |-> data, parts |-> <<>>]

NotXml == XmlDoc(FALSE, "none", "", "", <<>>)

\* no bytes at all: the decoder meets the end of input before any element
EmptyXml == [NotXml EXCEPT !.form = "empty"]

MultipartDoc(parts) ==
    [form |-> "multipart", envelopeOK |-> FALSE, op |-> "none", id |-> "",
     fileName |-> "", fileData |-> <<>>, parts |-> parts]

\* the stream reaches the end of the document of request r
Complete(r, stream) == TotalLen(stream) >= TotalLen(r.segs) - r.tail

\* Unmarshal of an envelope into a struct whose Body holds one field for
\* element `want`: a syntax error, a stream that ends early or a wrong
\* wrapper is an error; an absent element leaves the zero value.
Unmarshal(doc, complete, want) ==
    IF doc.form = "empty"
    THEN [err |-> <<"EOF">>, id |-> "", fileName |-> "", fileData |-> <<>>]
    ELSE IF doc.form # "xml" \/ ~doc.envelopeOK \/ ~complete
    THEN [err |-> <<"XML syntax error">>, id |-> "", fileName |-> "", fileData |-> <<>>]
    ELSE IF doc.op = want
    THEN [err |-> <<>>, id |-> doc.id, fileName |-> doc.fileName,
          fileData |-> CharData(doc.fileData)]
    ELSE [err |-> <<>>, id |-> "", fileName |-> "", fileData |-> <<>>]

----------------------------------------------------------------------------
(* handler: GetUser *)

\* the keys of the user table as declared
SampleUsers == {"1", "2", "3"}

sendSOAPResponse(elementName, size) ==
    [kind |-> "response", code |-> "", message |-> elementName,
     detail |-> <<>>, size |-> size]

GetUserResult(r, stream) ==
    LET env == Unmarshal(r.doc, Complete(r, stream), "GetUserRequest")
    IN  IF env.err # <<>>
        THEN sendSOAPError("Client", "Invalid XML format", env.err)
        ELSE IF env.id \notin userDB
        THEN sendSOAPError("Client", "User not found",
                           <<"User with ID ", env.id, " not found">>)
        ELSE sendSOAPResponse("GetUserResponse", 0)

----------------------------------------------------------------------------
(* handler: UploadFile (file.go) *)

\* lines 52-76: decode, validate, base64-decode.  fault is NoResp when
\* every check passed.
UploadFileParsed(r, stream) ==
    LET env == Unmarshal(r.doc, Complete(r, stream), "UploadFileRequest")
        dec == DecodeString(env.fileData)
        bad(f) == [fault |-> f, fileName |-> "", fileData |-> <<>>]
    IN  IF env.err # <<>>
        THEN bad(sendSOAPError("Client", "Invalid XML format", env.err))
        ELSE IF env.fileName = ""
        THEN bad(sendSOAPError("Client", "Invalid input", <<"File name is required">>))
        ELSE IF env.fileData = <<>>
        THEN bad(sendSOAPError("Client", "Invalid input", <<"File data is required">>))
        ELSE IF ~dec.ok
        THEN bad(sendSOAPError("Client", "Invalid file data",
                 <<"Failed to decode base64 data: ", "illegal base64 data">>))
        ELSE [fault |-> NoResp, fileName |-> env.fileName, fileData |-> dec.data]

----------------------------------------------------------------------------
(* handler: UploadFileMTOM *)

\* A Content-Type header value: its media type as written, whether
\* mime.ParseMediaType accepts the value, and its boundary parameter
\* ("" when there is none)
ContentType(media, parses, boundary) ==
    [media |-> media, parses |-> parses, boundary |-> boundary]

\* A MIME part: the Content-ID header as sent, the Content-Type header as a
\* sequence of tokens, the payload bytes, and the payload read as XML
Part(cid, ctype, data, env) ==
    [cid |-> cid, ctype |-> ctype, data |-> data, env |-> env]

RECURSIVE TrimLeft(_, _)
TrimLeft(s, cutset) ==
    IF s # <<>> /\ Head(s) \in cutset THEN TrimLeft(Tail(s), cutset) ELSE s

RECURSIVE TrimRight(_, _)
TrimRight(s, cutset) ==
    IF s # <<>> /\ s[Len(s)] \in cutset
    THEN TrimRight(SubSeq(s, 1, Len(s) - 1), cutset)
    ELSE s

\* strings.Trim(s, cutset)
Trim(s, cutset) == TrimRight(TrimLeft(s, cutset), cutset)

XMLFamily == {"application/xop+xml", "text/xml", "application/soap+xml"}

\* the three strings.Contains tests on the part's Content-Type
IsSoapPart(part) == \E i \in 1..Len(part.ctype) : part.ctype[i] \in XMLFamily

\* regexp href=["']cid:([^"']+)["'], FindStringSubmatch: the group of the
\* leftmost match, <<>> when nothing matches
HrefMatch(s) ==
    LET closing(j) == {k \in j..Len(s) : s[k] \in QuoteChars}
        matchesAt(i) ==
            /\ i + 10 <= Len(s)
            /\ SubSeq(s, i, i + 4) = SubSeq(HrefCid, 1, 5)
            /\ s[i + 5] \in QuoteChars
            /\ SubSeq(s, i + 6, i + 9) = SubSeq(HrefCid, 7, 10)
            /\ closing(i + 10) # {}
            /\ s[i + 10] \notin QuoteChars
        starts == {i \in 1..Len(s) : matchesAt(i)}
    IN  IF starts = {} THEN <<>>
        ELSE LET i == CHOOSE x \in starts : \A y \in starts : x <= y
                 k == CHOOSE x \in closing(i + 10) : \A y \in closing(i + 10) : x <= y
             IN  <<SubSeq(s, i + 10, k - 1)>>

\* parseMTOMSOAPEnvelope: soapPart is the control part's XML (EmptyXml for "")
parseMTOMSOAPEnvelope(soapPart) ==
    LET env == Unmarshal(soapPart, TRUE, "UploadFileMTOMRequest")
    IN  IF env.err # <<>>
        THEN [err |-> <<"XML parse error: ">> \o env.err, fileName |-> "", xopRefs |-> <<>>]
        ELSE [err |-> <<>>, fileName |-> env.fileName,
              xopRefs |-> IF HasSub(env.fileData, XopInclude)
                             \/ HasSub(env.fileData, IncludeWord)
                          THEN HrefMatch(env.fileData)
                          ELSE <<>>]

RECURSIVE ResolveRefsLastMatch(_, _, _)
ResolveRefsLastMatch(xopRefs, parts, fileDataSoFar) ==
    IF xopRefs = <<>> THEN [err |-> <<>>, fileData |-> fileDataSoFar]
    ELSE LET hits == {i \in 1..Len(parts) : parts[i].ContentID = Head(xopRefs)}
         IN  IF hits = {}
             THEN [err |-> <<"XOP reference not found: ">> \o Head(xopRefs),
                   fileData |-> <<>>]
             ELSE ResolveRefsLastMatch(Tail(xopRefs), parts,
                              parts[CHOOSE i \in hits : \A j \in hits : i >= j].Data)

\* lines 335-349: each reference takes the data of the first part whose
\* ContentID equals it
RECURSIVE ResolveRefs(_, _, _)
ResolveRefs(xopRefs, parts, fileDataSoFar) ==
    IF xopRefs = <<>> THEN [err |-> <<>>, fileData |-> fileDataSoFar]
    ELSE LET hits == {i \in 1..Len(parts) : parts[i].ContentID = Head(xopRefs)}
         IN  IF hits = {}
             THEN [err |-> <<"XOP reference not found: ">> \o Head(xopRefs),
                   fileData |-> <<>>]
             ELSE ResolveRefs(Tail(xopRefs), parts,
                              parts[CHOOSE i \in hits : \A j \in hits : i <= j].Data)

SoapPartOfFirst(mimeParts) ==
    LET xs == SelectSeq(mimeParts, IsSoapPart)
    IN  IF xs = <<>> THEN EmptyXml ELSE xs[1].env

SoapPartOfAnyType(mimeParts) ==
    IF mimeParts = <<>> THEN EmptyXml ELSE mimeParts[Len(mimeParts)].env

\* lines 288-327: the last XML-family part is the SOAP part, every other
\* part is kept as an attachment; soapPart stays "" when there is none
SoapPartOf(mimeParts) ==
    LET xs == SelectSeq(mimeParts, IsSoapPart)
    IN  IF xs = <<>> THEN EmptyXml ELSE xs[Len(xs)].env

AttachmentsOf(mimeParts) ==
    LET as == SelectSeq(mimeParts, LAMBDA p : ~IsSoapPart(p))
    IN  [i \in 1..Len(as) |->
            [ContentID |-> Trim(as[i].cid, {"<", ">"}),
             ContentType |-> as[i].ctype,
             Data |-> as[i].data]]

MTOMError(e) == [err |-> e, fileName |-> "", fileData |-> <<>>]

BoundaryErrorUnchecked(ct) ==
    IF ~ct.parses
    THEN <<"failed to parse content-type: ", "mime: invalid media parameter">>
    ELSE <<>>

\* mime.ParseMediaType and the boundary lookup, lines 269-277
BoundaryError(ct) ==
    IF ~ct.parses
    THEN <<"failed to parse content-type: ", "mime: invalid media parameter">>
    ELSE IF ct.boundary = ""
    THEN <<"boundary not found in content-type">>
    ELSE <<>>

parseMTOMRequest(r, stream) ==
    LET soap == parseMTOMSOAPEnvelope(SoapPartOf(r.doc.parts))
        res == ResolveRefs(soap.xopRefs, AttachmentsOf(r.doc.parts), <<>>)
    IN  IF BoundaryError(r.contentType) # <<>>
        THEN MTOMError(BoundaryError(r.contentType))
        ELSE IF r.doc.form # "multipart" \/ ~Complete(r, stream)
        THEN MTOMError(<<"failed to read multipart part: ", "unexpected EOF">>)
        ELSE IF soap.err # <<>>
        THEN MTOMError(<<"failed to parse SOAP envelope: ">> \o soap.err)
        ELSE IF res.err # <<>>
        THEN MTOMError(res.err)
        ELSE IF res.fileData = <<>>
        THEN MTOMError(<<"no file data found in MTOM request">>)
        ELSE [err |-> <<>>, fileName |-> soap.fileName, fileData |-> res.fileData]

parseBase64SOAPRequest(r, stream) ==
    LET env == Unmarshal(r.doc, Complete(r, stream), "UploadFileMTOMRequest")
        dec == DecodeString(env.fileData)
    IN  IF env.err # <<>>
        THEN MTOMError(<<"XML decode error: ">> \o env.err)
        ELSE IF ~dec.ok
        THEN MTOMError(<<"base64 decode error: ", "illegal base64 data">>)
        ELSE [err |-> <<>>, fileName |-> env.fileName, fileData |-> dec.data]

\* lines 198-223: parse by content type, then validate
UploadFileMTOMParsed(r, stream) ==
    LET mtom == r.contentType.media = "multipart/related"
        p == IF mtom THEN parseMTOMRequest(r, stream)
             ELSE parseBase64SOAPRequest(r, stream)
        bad(f) == [fault |-> f, fileName |-> "", fileData |-> <<>>]
    IN  IF p.err # <<>>
        THEN bad(sendSOAPError("Client",
                 IF mtom THEN "Invalid MTOM request" ELSE "Invalid SOAP request",
                 p.err))
        ELSE IF p.fileName = ""
        THEN bad(sendSOAPError("Client", "Invalid input", <<"File name is required">>))
        ELSE IF Len(p.fileData) = 0
        THEN bad(sendSOAPError("Client", "Invalid input", <<"File data is required">>))
        ELSE [fault |-> NoResp, fileName |-> p.fileName, fileData |-> p.fileData]

----------------------------------------------------------------------------
(* The /soap handler, step by step *)

\* main.go:21-24
RejectMethod ==
    /\ pc = "dispatch"
    /\ ~MethodAllowed(req.method)
    /\ resp' = MethodNotAllowed
    /\ pc' = "done"
    /\ UNCHANGED <<userDB, parked, req, bodyRead, rbody, invoked, fsOps, fileName, fileData, mimeRead>>

\* main.go:36-50: a known SOAPAction calls its handler with the request
\* as it arrived
RouteByAction ==
    /\ pc = "dispatch"
    /\ MethodAllowed(req.method)
    /\ HeaderTarget(req.soapAction) # "none"
    /\ invoked' = Append(invoked, HeaderTarget(req.soapAction))
    /\ rbody' = req.segs
    /\ pc' = HeaderTarget(req.soapAction)
    /\ UNCHANGED <<userDB, parked, req, bodyRead, resp, fsOps, fileName, fileData, mimeRead>>

\* main.go:52-76: one Read of at most PeekSize bytes, then the marker tests
SniffAndRoute ==
    /\ pc = "dispatch"
    /\ MethodAllowed(req.method)
    /\ HeaderTarget(req.soapAction) = "none"
    /\ \E n \in ReadCounts(req.segs) :
          LET bufStr == Take(req.segs, n)
              target == SniffTarget(bufStr)
          IN  /\ bodyRead' = n
              /\ IF target # "none"
                 THEN /\ rbody' = newReadCloser(bufStr)
                      /\ invoked' = Append(invoked, target)
                      /\ pc' = target
                      /\ resp' = resp
                 ELSE /\ resp' = UnknownOperationFault
                      /\ pc' = "done"
                      /\ UNCHANGED <<rbody, invoked>>
    /\ UNCHANGED <<userDB, parked, req, fsOps, fileName, fileData, mimeRead>>

GetUserEvicting ==
    /\ pc = "GetUser"
    /\ resp' = GetUserResult(req, rbody)
    /\ pc' = "done"
    /\ userDB' = userDB \ {req.doc.id}
    /\ UNCHANGED <<parked, req, bodyRead, rbody, invoked, fsOps, fileName, fileData, mimeRead>>

\* handler.GetUser
GetUser ==
    /\ pc = "GetUser"
    /\ resp' = GetUserResult(req, rbody)
    /\ pc' = "done"
    /\ UNCHANGED <<userDB, parked, req, bodyRead, rbody, invoked, fsOps, fileName, fileData, mimeRead>>

UploadFileMkdirFirst ==
    /\ pc = "UploadFile"
    /\ fsOps' = Append(fsOps, "MkdirAll")
    /\ LET p == UploadFileParsed(req, rbody)
       IN  /\ resp' = p.fault
           /\ fileName' = p.fileName
           /\ fileData' = p.fileData
           /\ pc' = IF p.fault = NoResp THEN "UploadFile.WriteFile" ELSE "done"
    /\ UNCHANGED <<userDB, parked, req, bodyRead, rbody, invoked, mimeRead>>

\* handler.UploadFile, file.go:52-76
UploadFile ==
    /\ pc = "UploadFile"
    /\ LET p == UploadFileParsed(req, rbody)
       IN  /\ resp' = p.fault
           /\ fileName' = p.fileName
           /\ fileData' = p.fileData
           /\ pc' = IF p.fault = NoResp THEN "UploadFile.MkdirAll" ELSE "done"
    /\ UNCHANGED <<userDB, parked, req, bodyRead, rbody, invoked, fsOps, mimeRead>>

UploadFileMkdirAllRetryOnce ==
    /\ pc = "UploadFile.MkdirAll"
    /\ fsOps' = Append(fsOps, "MkdirAll")
    /\ \E ok \in BOOLEAN :
          IF ok THEN pc' = "UploadFile.WriteFile" /\ resp' = resp
          ELSE IF fsOps = <<>> THEN pc' = pc /\ resp' = resp
          ELSE /\ pc' = "done"
               /\ resp' = sendSOAPError("Server", "Internal error",
                              <<"Failed to create upload directory: ", "mkdir error">>)
    /\ UNCHANGED <<userDB, parked, req, bodyRead, rbody, invoked, fileName, fileData, mimeRead>>

\* file.go:82-85: os.MkdirAll succeeds or fails
UploadFileMkdirAll ==
    /\ pc = "UploadFile.MkdirAll"
    /\ fsOps' = Append(fsOps, "MkdirAll")
    /\ \E ok \in BOOLEAN :
          IF ok THEN pc' = "UploadFile.WriteFile" /\ resp' = resp
          ELSE /\ pc' = "done"
               /\ resp' = sendSOAPError("Server", "Internal error",
                              <<"Failed to create upload directory: ", "mkdir error">>)
    /\ UNCHANGED <<userDB, parked, req, bodyRead, rbody, invoked, fileName, fileData, mimeRead>>

\* file.go:93-109: os.WriteFile succeeds or fails
UploadFileWriteFile ==
    /\ pc = "UploadFile.WriteFile"
    /\ fsOps' = Append(fsOps, "WriteFile")
    /\ \E ok \in BOOLEAN :
          resp' = IF ok THEN sendSOAPResponse("UploadFileResponse", Len(fileData))
                  ELSE sendSOAPError("Server", "Internal error",
                           <<"Failed to save file: ", "write error">>)
    /\ pc' = "done"
    /\ UNCHANGED <<userDB, parked, req, bodyRead, rbody, invoked, fileName, fileData, mimeRead>>

\* handler.UploadFileMTOM, lines 189-223
UploadFileMTOM ==
    /\ pc = "UploadFileMTOM"
    /\ LET p == UploadFileMTOMParsed(req, rbody)
       IN  /\ resp' = p.fault
           /\ fileName' = p.fileName
           /\ fileData' = p.fileData
           /\ pc' = IF p.fault = NoResp THEN "UploadFileMTOM.MkdirAll" ELSE "done"
    /\ mimeRead' = (/\ req.contentType.media = "multipart/related"
                    /\ BoundaryError(req.contentType) = <<>>)
    /\ UNCHANGED <<userDB, parked, req, bodyRead, rbody, invoked, fsOps>>

\* lines 229-232
UploadFileMTOMMkdirAll ==
    /\ pc = "UploadFileMTOM.MkdirAll"
    /\ fsOps' = Append(fsOps, "MkdirAll")
    /\ \E ok \in BOOLEAN :
          IF ok THEN pc' = "UploadFileMTOM.WriteFile" /\ resp' = resp
          ELSE /\ pc' = "done"
               /\ resp' = sendSOAPError("Server", "Internal error",
                              <<"Failed to create upload directory: ", "mkdir error">>)
    /\ UNCHANGED <<userDB, parked, req, bodyRead, rbody, invoked, fileName, fileData, mimeRead>>

UploadFileMTOMWriteFileBlamesClient ==
    /\ pc = "UploadFileMTOM.WriteFile"
    /\ fsOps' = Append(fsOps, "WriteFile")
    /\ \E ok \in BOOLEAN :
          resp' = IF ok THEN sendSOAPResponse("UploadFileMTOMResponse", Len(fileData))
                  ELSE sendSOAPError("Client", "Internal error",
                           <<"Failed to save file: ", "write error">>)
    /\ pc' = "done"
    /\ UNCHANGED <<userDB, parked, req, bodyRead, rbody, invoked, fileName, fileData, mimeRead>>

\* lines 240-256
UploadFileMTOMWriteFile ==
    /\ pc = "UploadFileMTOM.WriteFile"
    /\ fsOps' = Append(fsOps, "WriteFile")
    /\ \E ok \in BOOLEAN :
          resp' = IF ok THEN sendSOAPResponse("UploadFileMTOMResponse", Len(fileData))
                  ELSE sendSOAPError("Server", "Internal error",
                           <<"Failed to save file: ", "write error">>)
    /\ pc' = "done"
    /\ UNCHANGED <<userDB, parked, req, bodyRead, rbody, invoked, fileName, fileData, mimeRead>>

Next ==
    \/ RejectMethod
    \/ RouteByAction
    \/ SniffAndRoute
    \/ GetUser
    \/ UploadFile
    \/ UploadFileMkdirAll
    \/ UploadFileWriteFile
    \/ UploadFileMTOM
    \/ UploadFileMTOMMkdirAll
    \/ UploadFileMTOMWriteFile

\* the request being handled, with its position and the handler's locals
Running ==
    [req |-> req, pc |-> pc, bodyRead |-> bodyRead, rbody |-> rbody,
     invoked |-> invoked, resp |-> resp, fsOps |-> fsOps,
     fileName |-> fileName, fileData |-> fileData, mimeRead |-> mimeRead]

\* net/http serves every request in a goroutine of its own: at any point
\* the scheduler may run the other request's goroutine instead.  Each
\* goroutine keeps its own r, w and locals; the user table is the one
\* package-level variable both see.
Yield ==
    /\ parked.pc # "none"
    /\ parked' = Running
    /\ req' = parked.req
    /\ pc' = parked.pc
    /\ bodyRead' = parked.bodyRead
    /\ rbody' = parked.rbody
    /\ invoked' = parked.invoked
    /\ resp' = parked.resp
    /\ fsOps' = parked.fsOps
    /\ fileName' = parked.fileName
    /\ fileData' = parked.fileData
    /\ mimeRead' = parked.mimeRead
    /\ UNCHANGED userDB

NextConcurrent ==
    \/ Next
    \/ Yield

----------------------------------------------------------------------------
(* Requests *)

Request(method, soapAction, contentType, segs, tail, doc) ==
    [method |-> method, soapAction |-> soapAction, contentType |-> contentType,
     segs |-> segs, tail |-> tail, doc |-> doc]

TextXml == ContentType("text/xml", TRUE, "")
Related == ContentType("multipart/related", TRUE, "B")

Quotes(n) == [i \in 1..n |-> Q]

HeaderValues ==
    {Quotes(l) \o core \o Quotes(r) :
        l \in 0..MaxQuotes, r \in 0..MaxQuotes,
        core \in {<<>>, <<GetUserAction>>, <<UploadFileAction>>,
                  <<UploadFileMTOMAction>>, <<"urn:other">>}}

SegAlphabet == {Marker(m) : m \in Markers} \cup {Filler(10), Filler(500)}

Bodies == UNION {[1..k -> SegAlphabet] : k \in 0..MaxSegs}

Base64Texts ==
    {<<>>, <<"Q", "Q", "=", "=">>, <<"Q", "U", "I", "=">>, <<"Q", "U", "J", "D">>,
     <<"Q", "Q", "=">>, <<"Q", "!", "=", "=">>, <<"Q", "U", "\n", "I", "=">>, <<"\n">>,
     <<"Q", "R", "=", "=">>, <<"Q", "=", "Q", "=">>, <<"Q", "U", "\r", "\n", "J">>}

TextNodes(t) == IF t = <<>> THEN <<>> ELSE <<Text(t)>>

\* the document of a body given by its segments alone: an envelope around
\* the first request element named in it
DocOf(segs) ==
    LET ms == SelectSeq(segs, LAMBDA g : g.kind \in Markers)
    IN  IF ms = <<>> THEN XmlDoc(TRUE, "none", "", "", <<>>)
        ELSE XmlDoc(TRUE, ms[1].kind, "1", "a.txt", <<Text(<<"Q", "U", "I", "=">>)>>)

\* the bytes of an envelope around element op, with a payload of `size`
EnvelopeSegs(op, size) ==
    IF op = "none" THEN <<Filler(150 + size)>>
    ELSE <<Filler(150), Marker(op), Filler(size), Marker(op), Filler(40)>>

DispatchRequests ==
    {Request(m, h, TextXml, b, 0, DocOf(b)) :
        m \in {"POST", "GET"}, h \in HeaderValues, b \in Bodies}

PlainDocs ==
    {XmlDoc(TRUE, op, "", name, TextNodes(t)) :
        op \in {"UploadFileRequest", "UploadFileMTOMRequest"},
        name \in {"", "a.txt"}, t \in Base64Texts}
    \cup {XmlDoc(TRUE, "GetUserRequest", id, "", <<>>) : id \in {"", "1", "9"}}
    \cup {XmlDoc(FALSE, op, "", "", <<>>) : op \in Markers}

HeaderOf(op) ==
    IF op = "GetUserRequest" THEN <<GetUserAction>>
    ELSE IF op = "UploadFileRequest" THEN <<UploadFileAction>>
    ELSE <<UploadFileMTOMAction>>

PlainRequests ==
    {Request("POST", IF byHeader THEN HeaderOf(d.op) ELSE <<>>, ct,
             EnvelopeSegs(d.op, size), tail, d) :
        d \in PlainDocs, byHeader \in BOOLEAN, size \in {60, 500}, tail \in {0, 2},
        ct \in {TextXml, Related, ContentType("multipart/related", TRUE, ""),
                ContentType("multipart/related", FALSE, "")}}

\* files of up to MaxBytes bytes, text and non-text
ByteValues == {0, 65, 250, 255}
Files == UNION {[1..k -> ByteValues] : k \in 0..MaxBytes}

\* what the client's encoder writes for each file
Encoded == [b \in Files |-> Base64Encode(b)]

\* uploads whose file data is what the client's encoder wrote for a file
EncodedRequests ==
    {Request("POST", HeaderOf(op), TextXml, EnvelopeSegs(op, 60), 0,
             XmlDoc(TRUE, op, "", "a.txt", TextNodes(Encoded[b]))) :
        op \in {"UploadFileRequest", "UploadFileMTOMRequest"}, b \in Files}

Ids == {<<"X">>, <<"Y">>}

EscapedInclude(id) ==
    Text(XopInclude \o <<" ">> \o HrefCid \o id \o <<Q, "/", ">">>)

ControlDocs ==
    {XmlDoc(TRUE, "UploadFileMTOMRequest", "", name, data) :
        name \in {"", "a.txt"},
        data \in {<<IncludeElem(id)>> : id \in Ids}
                 \cup {<<EscapedInclude(id)>> : id \in Ids}
                 \cup {<<Text(<<"Q", "U", "I", "=">>)>>, <<>>}}
    \cup {XmlDoc(FALSE, "UploadFileMTOMRequest", "", "", <<>>)}

Payloads == {<<>>, <<0>>, <<255, 10>>}

MimeParts ==
    {Part(<<"<", "r", ">">>, <<"application/xop+xml", "; charset=UTF-8">>, <<>>, d) :
        d \in ControlDocs}
    \cup {Part(<<>>, <<ct>>, <<>>,
               XmlDoc(TRUE, "UploadFileMTOMRequest", "", "a.txt", <<EscapedInclude(<<"X">>)>>)) :
            ct \in {"text/xml", "application/soap+xml"}}
    \cup {Part(cid, <<"application/octet-stream">>, data, NotXml) :
            cid \in {<<"<">> \o id \o <<">">> : id \in Ids} \cup {<<"X">>},
            data \in Payloads}
    \cup {Part(<<"<", "X", ">">>, <<"text/xml">>, <<>>,
               XmlDoc(TRUE, "UploadFileMTOMRequest", "", "b.txt",
                      <<Text(<<"Q", "U", "I", "=">>)>>))}

PartSegs(part) ==
    IF IsSoapPart(part) THEN <<Filler(90)>> \o EnvelopeSegs(part.env.op, 60)
    ELSE <<Filler(90 + Len(part.data))>>

RECURSIVE MessageSegs(_)
MessageSegs(parts) ==
    IF parts = <<>> THEN <<Filler(7)>>
    ELSE PartSegs(Head(parts)) \o MessageSegs(Tail(parts))

Messages == UNION {[1..k -> MimeParts] : k \in 0..MaxParts}

MTOMRequests ==
    {Request("POST", h, Related, MessageSegs(ps), 0, MultipartDoc(ps)) :
        h \in {<<>>, <<UploadFileMTOMAction>>}, ps \in Messages}

\* uploads that refer to attachment X, followed by up to MaxParts
\* attachments whose identifiers equal X, differ from it in case or in
\* brackets, or repeat
MatchRequests ==
    {Request("POST", <<UploadFileMTOMAction>>, Related, MessageSegs(ps), 0, MultipartDoc(ps)) :
        ps \in {<<Part(<<"<", "r", ">">>, <<"application/xop+xml">>, <<>>,
                       XmlDoc(TRUE, "UploadFileMTOMRequest", "", "a.txt",
                              <<EscapedInclude(<<"X">>)>>))>> \o as :
                as \in UNION {[1..k ->
                        {Part(cid, <<"application/octet-stream">>, data, NotXml) :
                            cid \in {<<"<", "X", ">">>, <<"<", "x", ">">>, <<"X">>,
                                     <<"<", "Y", ">">>},
                            data \in {<<>>, <<1>>, <<2>>}}] : k \in 0..MaxParts}}}

\* a body far larger than the server's memory is meant to hold: io.ReadAll
\* takes no limit, so the handler reads all of it
HugeBody == 1073741824

\* well-formed uploads followed by a MIME epilogue of HugeBody bytes
LargeRequests ==
    {Request("POST", <<UploadFileMTOMAction>>, Related,
             MessageSegs(ps) \o <<Filler(HugeBody)>>, 0, MultipartDoc(ps)) :
        ps \in {<<Part(<<"<", "r", ">">>, <<"application/xop+xml">>, <<>>,
                       XmlDoc(TRUE, "UploadFileMTOMRequest", "", "a.txt",
                              <<EscapedInclude(<<"X">>)>>)),
                  Part(<<"<", "X", ">">>, <<"application/octet-stream">>, data, NotXml)>> :
                data \in Payloads}}

\* no other request is in flight
NoGoroutine == [pc |-> "none"]

InitWith(requests, others) ==
    /\ req \in requests
    /\ pc = "dispatch"
    /\ bodyRead = 0
    /\ rbody = <<>>
    /\ invoked = <<>>
    /\ resp = NoResp
    /\ fsOps = <<>>
    /\ fileName = ""
    /\ fileData = <<>>
    /\ mimeRead = FALSE
    /\ userDB = SampleUsers
    /\ parked \in others

\* requests that exercise the dispatcher
Init == InitWith(DispatchRequests, {NoGoroutine})
Spec == Init /\ [][Next]_vars

\* requests that exercise the handlers
UploadRequests ==
    PlainRequests \cup MTOMRequests \cup EncodedRequests \cup LargeRequests
    \cup MatchRequests
    \cup {Request("GET", <<UploadFileAction>>, TextXml, EnvelopeSegs("UploadFileRequest", 60),
                  0, DocOf(EnvelopeSegs("UploadFileRequest", 60)))}
InitUpload == InitWith(UploadRequests, {NoGoroutine})
SpecUpload == InitUpload /\ [][Next]_vars

\* a request as its goroutine starts on it
Arrived(r) ==
    [req |-> r, pc |-> "dispatch", bodyRead |-> 0, rbody |-> <<>>,
     invoked |-> <<>>, resp |-> NoResp, fsOps |-> <<>>,
     fileName |-> "", fileData |-> <<>>, mimeRead |-> FALSE]

\* requests of every kind, handled two at a time
ConcurrentRequests ==
    {Request("GET", <<GetUserAction>>, TextXml, EnvelopeSegs("GetUserRequest", 60), 0,
             XmlDoc(TRUE, "GetUserRequest", "1", "", <<>>))}
    \cup {Request("POST", h, TextXml, EnvelopeSegs("GetUserRequest", 60), 0,
                  XmlDoc(TRUE, "GetUserRequest", id, "", <<>>)) :
            h \in {<<>>, <<GetUserAction>>}, id \in {"1", "9"}}
    \cup {Request("POST", IF byHeader THEN HeaderOf(op) ELSE <<>>, TextXml,
                  EnvelopeSegs(op, size), 0,
                  XmlDoc(TRUE, op, "", "a.txt", TextNodes(Base64Encode(<<65, 250>>)))) :
            op \in {"UploadFileRequest", "UploadFileMTOMRequest"},
            byHeader \in BOOLEAN, size \in {60, 500}}
    \cup LargeRequests

InitConcurrent ==
    InitWith(ConcurrentRequests, {Arrived(r) : r \in ConcurrentRequests})

SpecConcurrent == InitConcurrent /\ [][NextConcurrent]_vars

----------------------------------------------------------------------------
(* Properties *)

Known ==
    {<<GetUserAction, "GetUser">>, <<UploadFileAction, "UploadFile">>,
     <<UploadFileMTOMAction, "UploadFileMTOM">>}

\* the SOAPAction value is action a, bare or in one pair of quotes
Names(h, a) == h = <<a>> \/ h = <<Q, a, Q>>

Dispatched == pc # "dispatch"

Sniffed ==
    /\ req.method = "POST"
    /\ \A k \in Known : ~Names(req.soapAction, k[1])

\* C1: a POST whose SOAPAction, quotes stripped, is a known action goes to
\* the handler that action names, whatever markers the body holds, and the
\* handler gets the body with no byte of it read by the dispatcher.
C1_HeaderWins ==
    \A k \in Known :
        (req.method = "POST" /\ Names(req.soapAction, k[1]) /\ Dispatched)
            => /\ invoked = <<k[2]>>
               /\ bodyRead = 0
               /\ rbody = req.segs

C1_Witness ==
    /\ req.method = "POST"
    /\ req.soapAction = <<Q, GetUserAction, Q>>
    /\ Contains(req.segs, "UploadFileRequest")
    /\ ~Contains(req.segs, "GetUserRequest")
    /\ invoked = <<"GetUser">>
    /\ pc = "done"

\* C2: when a request is classified by sniffing and a handler is invoked,
\* the body the handler reads equals the original body byte for byte.
\* Stated for the requests whose peek filled the buffer or reached the end
\* of the body, so that a short first read is not what refutes it.
C2_NoBytesLost ==
    (/\ Sniffed
     /\ invoked # <<>>
     /\ bodyRead = Min(PeekSize, TotalLen(req.segs)))
        => rbody = req.segs

\* C5: a POST without SOAPAction whose first 512 body bytes hold the
\* marker GetUserRequest is given to GetUser and to no other handler.
C5_SniffLookup ==
    (/\ req.method = "POST"
     /\ req.soapAction = <<>>
     /\ Contains(Take(req.segs, PeekSize), "GetUserRequest")
     /\ Dispatched)
        => invoked = <<"GetUser">>

NoMarker(segs) == \A m \in Markers : ~Contains(segs, m)

\* C6: a POST without SOAPAction whose body holds none of the three markers
\* invokes no handler and ends in the fault Client / "Unknown operation"
\* with a non-empty detail.
C6_UnknownOperation ==
    (req.method = "POST" /\ req.soapAction = <<>> /\ NoMarker(req.segs))
        => /\ invoked = <<>>
           /\ pc \in {"dispatch", "done"}
           /\ pc = "done" =>
                /\ resp.kind = "fault"
                /\ resp.code = "Client"
                /\ resp.message = "Unknown operation"
                /\ resp.detail # <<>>
                /\ \A i \in 1..Len(resp.detail) : resp.detail[i] # ""

C6_Witness ==
    /\ req.method = "POST"
    /\ req.soapAction = <<>>
    /\ NoMarker(req.segs)
    /\ TotalLen(req.segs) > PeekSize
    /\ pc = "done"
    /\ resp.message = "Unknown operation"

\* C7: a request whose method is not POST is answered 405 with no fault
\* envelope; no handler is invoked and no body byte is read, whatever its
\* SOAPAction and body are.
C7_MethodRejected ==
    req.method # "POST"
        => /\ invoked = <<>>
           /\ bodyRead = 0
           /\ pc \in {"dispatch", "done"}
           /\ resp.kind # "fault"
           /\ pc = "done" => resp.kind = "http405"

C7_Witness ==
    /\ req.method = "GET"
    /\ req.soapAction = <<GetUserAction>>
    /\ Contains(req.segs, "GetUserRequest")
    /\ pc = "done"
    /\ resp.kind = "http405"

\* C8: every POST yields exactly one of: one handler invoked, or the fault
\* "Unknown operation"; never none, never two handlers, never a handler and
\* that fault.
C8_OneOutcome ==
    req.method = "POST"
        => /\ Len(invoked) <= 1
           /\ ~(invoked # <<>> /\ resp.message = "Unknown operation")
           /\ Dispatched =>
                (invoked # <<>> \/ (resp.kind = "fault" /\ resp.code = "Client"
                                     /\ resp.message = "Unknown operation"))
           /\ ~Dispatched => ENABLED Next

C8_Witness ==
    /\ req.method = "POST"
    /\ req.soapAction = <<Q, Q>>
    /\ pc = "done"
    /\ invoked = <<>>
    /\ resp.message = "Unknown operation"

\* C9: in both upload handlers a filesystem call is made only after
\* decoding and validation have succeeded, so a request that ends in a
\* Client fault has made none.
C9_ValidateFirst ==
    /\ fsOps # <<>> =>
          /\ fileName # ""
          /\ resp.code # "Client"
          /\ pc \in {"UploadFile.MkdirAll", "UploadFile.WriteFile",
                      "UploadFileMTOM.MkdirAll", "UploadFileMTOM.WriteFile", "done"}
          /\ invoked = <<"UploadFileMTOM">> => fileData # <<>>
    /\ resp.code = "Client" => fsOps = <<>>
    /\ pc \in {"UploadFile", "UploadFileMTOM"} => fsOps = <<>>

C9_Witness ==
    /\ invoked = <<"UploadFile">>
    /\ pc = "done"
    /\ resp.code = "Client"
    /\ resp.message = "Invalid file data"
    /\ fsOps = <<>>

\* a multipart/related request with a boundary whose message is one XML
\* control part with an Include element for id in fileData and a non-empty
\* fileName, followed by one attachment, handled with its whole body
OneReference(id) ==
    /\ req.method = "POST"
    /\ req.soapAction = <<UploadFileMTOMAction>>
    /\ req.contentType = Related
    /\ req.doc.form = "multipart"
    /\ Len(req.doc.parts) = 2
    /\ IsSoapPart(req.doc.parts[1])
    /\ req.doc.parts[1].env.envelopeOK
    /\ req.doc.parts[1].env.fileName # ""
    /\ req.doc.parts[1].env.fileData \in {<<IncludeElem(id)>>, <<EscapedInclude(id)>>}
    /\ ~IsSoapPart(req.doc.parts[2])

\* C3: with a control part referencing X and one attachment <X> with
\* payload P, parsing and resolution succeed and the file data is P.
C3_Resolved ==
    \A id \in Ids :
        (/\ OneReference(id)
         /\ req.doc.parts[2].cid = <<"<">> \o id \o <<">">>
         /\ req.doc.parts[2].data # <<>>
         /\ pc \notin {"dispatch", "UploadFileMTOM"})
            => /\ resp.kind # "fault" \/ resp.code # "Client"
               /\ fileData = req.doc.parts[2].data

\* C4: with a control part referencing X and one attachment whose
\* identifier is not X, the request ends in a Client fault that reports
\* the reference X as not found, and nothing is written.
C4_Unresolved ==
    \A id \in Ids :
        (/\ OneReference(id)
         /\ Trim(req.doc.parts[2].cid, {"<", ">"}) # id
         /\ pc = "done")
            => /\ resp.kind = "fault"
               /\ resp.code = "Client"
               /\ resp.detail = <<"XOP reference not found: ">> \o id
               /\ fsOps = <<>>

MTOMWithoutBoundary ==
    /\ invoked = <<"UploadFileMTOM">>
    /\ req.contentType.media = "multipart/related"
    /\ req.contentType.boundary = ""

\* C10 as stated: a multipart/related request without a boundary parameter
\* ends in a Client fault reporting "boundary not found", the body not
\* parsed into parts.
C10_MissingBoundary ==
    (MTOMWithoutBoundary /\ pc = "done")
        => /\ resp.kind = "fault"
           /\ resp.code = "Client"
           /\ resp.detail = <<"boundary not found in content-type">>
           /\ ~mimeRead

\* C10 amended: when the Content-Type value parses as a media type, such a
\* request ends in the Client fault "boundary not found in content-type";
\* when it does not parse, in the Client fault "failed to parse
\* content-type"; in both the body is not parsed into parts and nothing is
\* written.
C10_MissingBoundaryParsed ==
    MTOMWithoutBoundary
        => /\ ~mimeRead
           /\ fsOps = <<>>
           /\ pc \in {"UploadFileMTOM", "done"}
           /\ pc = "done" =>
                /\ resp.kind = "fault"
                /\ resp.code = "Client"
                /\ resp.message = "Invalid MTOM request"
                /\ resp.detail[1] =
                      IF req.contentType.parses
                      THEN "boundary not found in content-type"
                      ELSE "failed to parse content-type: "

C10_Witness ==
    /\ MTOMWithoutBoundary
    /\ req.contentType.parses
    /\ pc = "done"
    /\ resp.detail = <<"boundary not found in content-type">>

\* the handler has decoded the file data and goes on to store it
Decoded ==
    pc \in {"UploadFile.MkdirAll", "UploadFile.WriteFile",
            "UploadFileMTOM.MkdirAll", "UploadFileMTOM.WriteFile"}

\* C11: decoding the inline encoding of a file b yields exactly b.  Whenever
\* the file data of an envelope is what the encoder wrote for b, the decoder
\* accepts it and returns b; a handler that has decoded it holds b, and a
\* non-empty b sent as a well-formed upload is never refused by the handler.
C11_RoundTrip ==
    req.doc.form = "xml" =>
      \A b \in Files :
        req.doc.fileData = TextNodes(Encoded[b])
            => /\ DecodeString(CharData(req.doc.fileData)) = [ok |-> TRUE, data |-> b]
               /\ Decoded => fileData = b
               /\ b # <<>> /\ pc = "done" /\ resp.kind = "fault"
                    /\ req \in EncodedRequests => resp.code = "Server"

C11_Witness ==
    /\ req \in EncodedRequests
    /\ req.doc.fileData = TextNodes(Encoded[<<250, 255>>])
    /\ pc = "done"
    /\ resp.kind = "response"
    /\ resp.size = 2
    /\ fileData = <<250, 255>>

\* a complete multipart upload, handed to the MTOM handler, whose control
\* part names a file and carries file data without an include marker that
\* the inline codec decodes to a non-empty file
InlineControlPart ==
    /\ invoked = <<"UploadFileMTOM">>
    /\ req.doc.form = "multipart"
    /\ BoundaryError(req.contentType) = <<>>
    /\ Complete(req, rbody)
    /\ LET soap == SoapPartOf(req.doc.parts)
           text == CharData(soap.fileData)
       IN  /\ soap.envelopeOK
           /\ soap.fileName # ""
           /\ ~HasSub(text, IncludeWord)
           /\ DecodeString(text).ok
           /\ DecodeString(text).data # <<>>

\* C12: file data in the control part of a multipart message that carries
\* no include marker is decoded with the inline codec and the upload
\* proceeds with the decoded bytes: the handler does not refuse the request
\* and stores the decoded file.
C12_InlineInControlPart ==
    InlineControlPart /\ pc = "done"
        => /\ fsOps # <<>>
           /\ fileData = DecodeString(CharData(SoapPartOf(req.doc.parts).fileData)).data

\* a complete multipart message, handed to the MTOM handler, none of whose
\* parts has an XML-family content type
NoControlPart ==
    /\ invoked = <<"UploadFileMTOM">>
    /\ req.doc.form = "multipart"
    /\ BoundaryError(req.contentType) = <<>>
    /\ Complete(req, rbody)
    /\ \A i \in 1..Len(req.doc.parts) : ~IsSoapPart(req.doc.parts[i])

\* C13 as stated: a multipart message without a control part ends in a
\* Client fault reporting 'missing control part', no attachment resolved or
\* persisted.
C13_MissingControlPart ==
    NoControlPart /\ pc = "done"
        => /\ resp.kind = "fault"
           /\ resp.code = "Client"
           /\ resp.detail = <<"missing control part">>
           /\ fileData = <<>>
           /\ fsOps = <<>>

\* C13 amended: such a message ends in the Client fault "Invalid MTOM
\* request" whose detail is the envelope parser's error on empty input,
\* "failed to parse SOAP envelope: XML parse error: EOF"; no attachment is
\* resolved and nothing is persisted.
C13_MissingControlPartEOF ==
    NoControlPart
        => /\ fileData = <<>>
           /\ fsOps = <<>>
           /\ pc \in {"UploadFileMTOM", "done"}
           /\ pc = "done" =>
                /\ resp.kind = "fault"
                /\ resp.code = "Client"
                /\ resp.message = "Invalid MTOM request"
                /\ resp.detail = <<"failed to parse SOAP envelope: ",
                                   "XML parse error: ", "EOF">>

C13_Witness ==
    /\ NoControlPart
    /\ \E i \in 1..Len(req.doc.parts) : req.doc.parts[i].data # <<>>
    /\ pc = "done"
    /\ resp.detail = <<"failed to parse SOAP envelope: ", "XML parse error: ", "EOF">>

\* C14: the multipart parser buffers a request body only up to a maximum; a
\* larger body (here: one of at least HugeBody bytes) ends in a Client fault
\* reporting 'payload too large' instead of being buffered and parsed, and
\* nothing is written.
C14_PayloadTooLarge ==
    (/\ invoked = <<"UploadFileMTOM">>
     /\ req.contentType = Related
     /\ TotalLen(req.segs) >= HugeBody
     /\ pc = "done")
        => /\ resp.kind = "fault"
           /\ resp.code = "Client"
           /\ resp.detail = <<"payload too large">>
           /\ ~mimeRead
           /\ fsOps = <<>>

\* a complete, well-formed upload that names a file, handed to the handler
\* of its request element on a path that decodes the file data inline
InlineUpload ==
    /\ req.doc.form = "xml"
    /\ req.doc.envelopeOK
    /\ req.doc.fileName # ""
    /\ Complete(req, rbody)
    /\ \/ invoked = <<"UploadFile">> /\ req.doc.op = "UploadFileRequest"
       \/ /\ invoked = <<"UploadFileMTOM">>
          /\ req.doc.op = "UploadFileMTOMRequest"
          /\ req.contentType.media # "multipart/related"

\* wrong padding: a length that is no multiple of 4, or '=' anywhere but in
\* the last one or two places
WrongPadding(s) ==
    \/ Len(s) % 4 # 0
    \/ \E i \in 1..Len(s) :
          /\ s[i] = "="
          /\ i < Len(s) - 1 \/ (i = Len(s) - 1 /\ s[Len(s)] # "=")

OutsideAlphabet(s) == \E i \in 1..Len(s) : ~IsB64(s[i]) /\ s[i] # "="

WithoutLineBreaks(s) == SelectSeq(s, LAMBDA c : c \notin {"\r", "\n"})

\* the request was refused with the codec's error in the fault detail
CodecFault ==
    /\ resp.kind = "fault"
    /\ resp.code = "Client"
    /\ resp.detail # <<>>
    /\ resp.detail[Len(resp.detail)] = "illegal base64 data"
    /\ fsOps = <<>>

\* C15 as stated: file data with wrong padding or a character outside the
\* alphabet ends in a Client fault carrying the codec's error, and nothing
\* is written.
C15_Undecodable ==
    LET text == CharData(req.doc.fileData)
    IN  InlineUpload /\ pc = "done" /\ (WrongPadding(text) \/ OutsideAlphabet(text))
            => CodecFault

\* C15 amended: the codec ignores carriage returns and line feeds; file
\* data that, with those removed, has wrong padding or a character outside
\* the alphabet ends in a Client fault carrying the codec's error, and
\* nothing is written.
C15_UndecodableLineBreaks ==
    LET text == WithoutLineBreaks(CharData(req.doc.fileData))
    IN  InlineUpload /\ (WrongPadding(text) \/ OutsideAlphabet(text))
            => /\ fsOps = <<>>
               /\ pc \in {"UploadFile", "UploadFileMTOM", "done"}
               /\ pc = "done" => CodecFault

C15_Witness ==
    /\ InlineUpload
    /\ invoked = <<"UploadFileMTOM">>
    /\ CharData(req.doc.fileData) = <<"Q", "!", "=", "=">>
    /\ pc = "done"
    /\ CodecFault
    /\ resp.message = "Invalid SOAP request"

\* the last call to an external collaborator (directory creation, file
\* write) failed: the handler stopped right after it without a response
CollaboratorFailed ==
    /\ fsOps # <<>>
    /\ pc = "done"
    /\ resp.kind # "response"

\* C16: every fault envelope has code exactly "Client" or "Server"; the code
\* is "Server" exactly when the failure came from an external collaborator
\* (upload directory creation, file write) and "Client" for every parsing,
\* decoding, validation, unknown-operation and record-not-found failure,
\* all of which happen before any collaborator is called.
C16_FaultClassification ==
    resp.kind = "fault"
        => /\ resp.code \in {"Client", "Server"}
           /\ resp.code = "Server" <=> CollaboratorFailed
           /\ resp.code = "Server" =>
                /\ resp.message = "Internal error"
                /\ resp.detail[1] =
                      IF fsOps[Len(fsOps)] = "MkdirAll"
                      THEN "Failed to create upload directory: "
                      ELSE "Failed to save file: "
           /\ resp.code = "Client" =>
                /\ fsOps = <<>>
                /\ resp.message \in
                      {"Unknown operation", "Invalid XML format", "User not found",
                       "Invalid input", "Invalid file data", "Invalid MTOM request",
                       "Invalid SOAP request"}

C16_Witness ==
    /\ invoked = <<"UploadFileMTOM">>
    /\ fsOps = <<"MkdirAll", "WriteFile">>
    /\ resp.kind = "fault"
    /\ resp.code = "Server"
    /\ resp.detail[1] = "Failed to save file: "

\* what a handler answers to request r when it finds `body` in r.Body,
\* with the user table as declared
HandlerOutcomes(r, target, body) ==
    LET store(p, element) ==
            IF p.fault # NoResp THEN {p.fault}
            ELSE {sendSOAPResponse(element, Len(p.fileData)),
                  sendSOAPError("Server", "Internal error",
                                <<"Failed to create upload directory: ", "mkdir error">>),
                  sendSOAPError("Server", "Internal error",
                                <<"Failed to save file: ", "write error">>)}
        lookup == LET env == Unmarshal(r.doc, Complete(r, body), "GetUserRequest")
                  IN  IF env.err # <<>>
                      THEN sendSOAPError("Client", "Invalid XML format", env.err)
                      ELSE IF env.id \in SampleUsers
                      THEN sendSOAPResponse("GetUserResponse", 0)
                      ELSE sendSOAPError("Client", "User not found",
                                         <<"User with ID ", env.id, " not found">>)
    IN  IF target = "GetUser" THEN {lookup}
        ELSE IF target = "UploadFile"
        THEN store(UploadFileParsed(r, body), "UploadFileResponse")
        ELSE store(UploadFileMTOMParsed(r, body), "UploadFileMTOMResponse")

\* the classification and the response or fault request r can end in when
\* it is the only request the server handles
AloneOutcomes(r) ==
    IF ~MethodAllowed(r.method)
    THEN {[invoked |-> <<>>, resp |-> MethodNotAllowed]}
    ELSE LET bodies == IF HeaderTarget(r.soapAction) # "none" THEN {r.segs}
                       ELSE {Take(r.segs, n) : n \in ReadCounts(r.segs)}
             target(body) == IF HeaderTarget(r.soapAction) # "none"
                             THEN HeaderTarget(r.soapAction)
                             ELSE SniffTarget(body)
         IN  UNION {IF target(body) = "none"
                    THEN {[invoked |-> <<>>, resp |-> UnknownOperationFault]}
                    ELSE {[invoked |-> <<target(body)>>, resp |-> o] :
                             o \in HandlerOutcomes(r, target(body), body)} :
                    body \in bodies}

\* C17: requests handled concurrently, in any interleaving, do not affect
\* each other: the user table, the only datum they share, is never written,
\* and each request is classified and answered as it can be when it is
\* handled alone.
C17_Independence ==
    /\ userDB = SampleUsers
    /\ \A c \in {Running, parked} :
          /\ c.pc = "done" =>
                [invoked |-> c.invoked, resp |-> c.resp] \in AloneOutcomes(c.req)
          /\ c.pc \notin {"none", "dispatch"} =>
                \E o \in AloneOutcomes(c.req) : o.invoked = c.invoked

C17_Witness ==
    /\ pc = "done"
    /\ parked.pc = "done"
    /\ req.doc.id = "1"
    /\ parked.req.doc.id = "1"
    /\ req.soapAction # parked.req.soapAction
    /\ resp = sendSOAPResponse("GetUserResponse", 0)
    /\ parked.resp = sendSOAPResponse("GetUserResponse", 0)

\* the prefix of the body the dispatcher peeked at
Peeked == Take(req.segs, bodyRead)

\* C18: on the sniffing path the markers are tested in the order lookup
\* request, optimized upload, inline upload: a peeked prefix that holds
\* several markers goes to the handler of the first of them in that order.
C18_SniffPriority ==
    Sniffed /\ Dispatched
        => /\ Contains(Peeked, "GetUserRequest") => invoked = <<"GetUser">>
           /\ ~Contains(Peeked, "GetUserRequest")
                /\ Contains(Peeked, "UploadFileMTOMRequest")
                    => invoked = <<"UploadFileMTOM">>
           /\ ~Contains(Peeked, "GetUserRequest")
                /\ ~Contains(Peeked, "UploadFileMTOMRequest")
                /\ Contains(Peeked, "UploadFileRequest")
                    => invoked = <<"UploadFile">>

\* both upload markers were peeked, the inline one first in the body
C18_Witness ==
    /\ Sniffed
    /\ req.segs = <<Marker("UploadFileRequest"), Marker("UploadFileMTOMRequest")>>
    /\ Contains(Peeked, "UploadFileRequest")
    /\ Contains(Peeked, "UploadFileMTOMRequest")
    /\ invoked = <<"UploadFileMTOM">>

\* an identifier without its angle brackets
Bare(cid) == SelectSeq(cid, LAMBDA c : c \notin {"<", ">"})

\* the parts of the message other than control parts, in message order
Attached == SelectSeq(req.doc.parts, LAMBDA p : ~IsSoapPart(p))

\* a complete multipart upload, handed to the MTOM handler, whose control
\* part names a file and from which the parser extracts the reference id
RefersTo(id) ==
    /\ invoked = <<"UploadFileMTOM">>
    /\ req.doc.form = "multipart"
    /\ BoundaryError(req.contentType) = <<>>
    /\ Complete(req, rbody)
    /\ parseMTOMSOAPEnvelope(SoapPartOf(req.doc.parts)).xopRefs = <<id>>
    /\ SoapPartOf(req.doc.parts).fileName # ""

\* C19: a reference identifier is matched against the attachments by
\* exact, case-sensitive equality with their identifier stripped of angle
\* brackets, in message order: the payload taken is that of the first
\* attachment with that identifier, also when a later one shares it; when
\* none has it the reference is reported as not found.
C19_FirstExactMatch ==
    \A id \in Ids :
        RefersTo(id) /\ pc = "done"
            => LET hits == {i \in 1..Len(Attached) : Bare(Attached[i].cid) = id}
                   first == CHOOSE i \in hits : \A j \in hits : i <= j
               IN  IF hits = {}
                   THEN /\ resp.code = "Client"
                        /\ resp.detail = <<"XOP reference not found: ">> \o id
                   ELSE IF Attached[first].data = <<>>
                   THEN /\ resp.code = "Client"
                        /\ resp.detail = <<"no file data found in MTOM request">>
                   ELSE /\ fileData = Attached[first].data
                        /\ fsOps # <<>>

\* two attachments share the identifier and differ in payload
C19_Witness ==
    /\ RefersTo(<<"X">>)
    /\ Len(Attached) = 2
    /\ Attached[1].cid = <<"<", "X", ">">>
    /\ Attached[2].cid = <<"X">>
    /\ Attached[1].data = <<2>>
    /\ Attached[2].data = <<1>>
    /\ pc = "done"
    /\ fileData = <<2>>
    /\ resp.kind = "response"

\* C20: stripQuotes removes exactly one pair of surrounding double quotes
\* from a token of length at least 2 whose first and last characters are
\* quotes, and returns every other token unchanged; a token in two pairs of
\* quotes loses only the outer pair.  So a known action in one pair of
\* quotes selects its handler, while the same action in two pairs, or
\* quoted at one end only, is not recognised and the body is sniffed.
C20_StripQuotes ==
    LET h == req.soapAction
        out == stripQuotes(h)
        both == Len(h) >= 2 /\ h[1] = Q /\ h[Len(h)] = Q
    IN  /\ both => h = <<Q>> \o out \o <<Q>>
        /\ ~both => out = h
        /\ req.method = "POST" /\ Dispatched =>
              \A k \in Known :
                  /\ h = <<Q, k[1], Q>> => invoked = <<k[2]>> /\ bodyRead = 0
                  /\ h \in {<<Q, Q, k[1], Q, Q>>, <<Q, k[1]>>, <<k[1], Q>>} =>
                        IF SniffTarget(Peeked) = "none"
                        THEN invoked = <<>> /\ resp = UnknownOperationFault
                        ELSE invoked = <<SniffTarget(Peeked)>>

\* a known action in two pairs of quotes, with a body that names nothing
C20_Witness ==
    /\ req.method = "POST"
    /\ req.soapAction = <<Q, Q, GetUserAction, Q, Q>>
    /\ stripQuotes(req.soapAction) = <<Q, GetUserAction, Q>>
    /\ NoMarker(req.segs)
    /\ pc = "done"
    /\ resp = UnknownOperationFault

\* the places of the XML-family parts in the message
XmlPlaces == {i \in 1..Len(req.doc.parts) : IsSoapPart(req.doc.parts[i])}

\* a complete multipart message with several XML-family parts, handed to
\* the MTOM handler
SeveralControlParts ==
    /\ invoked = <<"UploadFileMTOM">>
    /\ req.doc.form = "multipart"
    /\ BoundaryError(req.contentType) = <<>>
    /\ Complete(req, rbody)
    /\ Cardinality(XmlPlaces) > 1

\* the same request with every XML-family part but the last one removed
LastControlOnly ==
    LET last == CHOOSE i \in XmlPlaces : \A j \in XmlPlaces : j <= i
    IN  [req EXCEPT !.doc.parts = <<req.doc.parts[last]>> \o Attached]

\* C21: when a multipart message holds several parts with an XML-family
\* content type, the last of them in message order is parsed as the control
\* part; the earlier ones are discarded and are no attachments: the request
\* is parsed and answered exactly as the message without them.
C21_LastControlPart ==
    SeveralControlParts /\ pc # "UploadFileMTOM"
        => LET p == UploadFileMTOMParsed(LastControlOnly, rbody)
           IN  /\ fileName = p.fileName
               /\ fileData = p.fileData
               /\ fsOps = <<>> => resp = p.fault
               /\ p.fault # NoResp => pc = "done" /\ fsOps = <<>>

\* an XML-family part identified as X, then a control part that refers to
\* X: the reference is not found
C21_Witness ==
    /\ SeveralControlParts
    /\ Len(req.doc.parts) = 2
    /\ req.doc.parts[1].cid = <<"<", "X", ">">>
    /\ req.doc.parts[2].env.fileData = <<EscapedInclude(<<"X">>)>>
    /\ req.doc.parts[2].env.fileName = "a.txt"
    /\ pc = "done"
    /\ resp.detail = <<"XOP reference not found: ", "X">>

\* C22: within one request the upload directory is created at most once
\* and the file is written at most once, in that order; a failure ends the
\* request with a fault at once: no collaborator is called again and no
\* further step of the request follows.
C22_NoRetry ==
    /\ fsOps \in {<<>>, <<"MkdirAll">>, <<"MkdirAll", "WriteFile">>}
    /\ resp.kind = "fault" => pc = "done" /\ ~ENABLED Next
    /\ resp.kind = "fault" /\ resp.code = "Server" =>
          resp.detail[1] = IF fsOps = <<"MkdirAll">>
                           THEN "Failed to create upload directory: "
                           ELSE "Failed to save file: "

\* the directory could not be created: the request is over, no file written
C22_Witness ==
    /\ invoked = <<"UploadFile">>
    /\ fsOps = <<"MkdirAll">>
    /\ pc = "done"
    /\ resp.kind = "fault"
    /\ resp.code = "Server"
    /\ ~ENABLED Next

\* a POST whose SOAPAction is present but names no known action
Unrecognised == Sniffed /\ req.soapAction # <<>>

\* C23: a POST whose SOAPAction header is non-empty but, quotes stripped,
\* is none of the three known actions is not refused for its header: the
\* body is sniffed as for a request without the header.  It ends in the
\* Client fault "Unknown operation" exactly when the peeked prefix holds no
\* marker; otherwise the handler the prefix names gets the peeked bytes,
\* and the outcome is one the same request has without the header.
C23_UnrecognisedHeader ==
    Unrecognised /\ Dispatched
        => /\ IF NoMarker(Peeked)
              THEN invoked = <<>> /\ pc = "done" /\ resp = UnknownOperationFault
              ELSE /\ invoked = <<SniffTarget(Peeked)>>
                   /\ rbody = Peeked
                   /\ resp.message # "Unknown operation"
           /\ pc = "done" =>
                [invoked |-> invoked, resp |-> resp]
                    \in AloneOutcomes([req EXCEPT !.soapAction = <<>>])

\* an unknown action URI, a body that names the inline upload
C23_Witness ==
    /\ req.method = "POST"
    /\ req.soapAction = <<"urn:other">>
    /\ Contains(Peeked, "UploadFileRequest")
    /\ invoked = <<"UploadFile">>
    /\ pc = "done"
    /\ resp.kind # "fault"

====
